---- MODULE Spec2Model ----
(***************************************************************************)
(* Model of the relevance selection engine of resume_builder.py:           *)
(* normalize/tokenize, score_item, select_relevant (skills matching,       *)
(* rank_section, education), make_summary, and main's call sequence        *)
(* select_relevant -> render_word.                                         *)
(*                                                                         *)
(* A Python str is a sequence of one-character strings, so that lower(),   *)
(* the regular expression of normalize, sorted() and " ".join() are        *)
(* computed character by character.  A dict is a function whose DOMAIN is  *)
(* the set of keys present; dict.get(k, d) is Get.                         *)
(***************************************************************************)
EXTENDS Integers, Sequences, FiniteSets

VARIABLES kb, jd_text, limits, pc, selected, summary, doc

vars == <<kb, jd_text, limits, pc, selected, summary, doc>>

----------------------------------------------------------------------------
(* Characters.  Printable ASCII in code-point order, 32 (space) to 126.    *)
(* Code point 96 (the grave accent) cannot be written in a string literal   *)
(* and is named "GRAVE".                                                   *)

Ascii == <<
    " ", "!", "\"", "#", "$", "%", "&", "'", "(", ")", "*", "+", ",", "-",
    ".", "/", "0", "1", "2", "3", "4", "5", "6", "7", "8", "9", ":", ";",
    "<", "=", ">", "?", "@", "A", "B", "C", "D", "E", "F", "G", "H", "I",
    "J", "K", "L", "M", "N", "O", "P", "Q", "R", "S", "T", "U", "V", "W",
    "X", "Y", "Z", "[", "\\", "]", "^", "_", "GRAVE", "a", "b", "c", "d", "e",
    "f", "g", "h", "i", "j", "k", "l", "m", "n", "o", "p", "q", "r", "s",
    "t", "u", "v", "w", "x", "y", "z", "{", "|", "}", "~" >>

Range(s) == { s[i] : i \in DOMAIN s }

Min(a, b) == IF a <= b THEN a ELSE b

Max(a, b) == IF a >= b THEN a ELSE b

(* ord(c): the code point of a printable ASCII character.                  *)
ord == [ c \in Range(Ascii) |-> 31 + (CHOOSE i \in DOMAIN Ascii : Ascii[i] = c) ]

(* chr(n) for 32 <= n <= 126.                                              *)
chr(n) == Ascii[n - 31]

(* str.lower() on one character: 'A'..'Z' (65..90) move up by 32.          *)
lower_char(c) == IF ord[c] >= 65 /\ ord[c] <= 90 THEN chr(ord[c] + 32) ELSE c

(* str.lower()                                                             *)
lower(text) == [ i \in 1..Len(text) |-> lower_char(text[i]) ]

(* The character class [a-z0-9\+#\.] of normalize's regular expression.    *)
TokenChars ==
    { c \in Range(Ascii) : \/ (ord[c] >= 97 /\ ord[c] <= 122)
                           \/ (ord[c] >= 48 /\ ord[c] <= 57)
                           \/ c \in {"+", "#", "."} }

(* Python slicing l[:n], for negative n too.                               *)
Slice(l, n) ==
    IF n >= 0 THEN SubSeq(l, 1, Min(n, Len(l)))
              ELSE SubSeq(l, 1, Max(0, Len(l) + n))

(* dict.get(key, default)                                                  *)
Get(d, key, default) == IF key \in DOMAIN d THEN d[key] ELSE default

(* sep.join(parts)                                                         *)
RECURSIVE join(_, _)
join(sep, parts) ==
    IF parts = <<>> THEN <<>>
    ELSE IF Len(parts) = 1 THEN Head(parts)
    ELSE Head(parts) \o sep \o join(sep, Tail(parts))

----------------------------------------------------------------------------
(* Tokenizer                                                               *)

(* re.findall(r"[a-z0-9\+#\.]+", text): the maximal runs of TokenChars,    *)
(* left to right.  cur is the run being read, acc the runs found so far.   *)
RECURSIVE findall(_, _, _)
findall(text, cur, acc) ==
    IF text = <<>>
    THEN IF cur = <<>> THEN acc ELSE Append(acc, cur)
    ELSE IF Head(text) \in TokenChars
         THEN findall(Tail(text), Append(cur, Head(text)), acc)
         ELSE findall(Tail(text), <<>>,
                      IF cur = <<>> THEN acc ELSE Append(acc, cur))

normalize(text) == findall(lower(text), <<>>, <<>>)

tokenize(text) == Range(normalize(text))

----------------------------------------------------------------------------
(* Scorer                                                                  *)

(* The fields whose value is a list of strings (kb.json's "tech"); every   *)
(* other scored field holds a string.                                      *)
ListFields == {"tech"}

(* repr() of a string without quotes, backslashes or control characters.   *)
repr_str(s) == <<"'">> \o s \o <<"'">>

(* str() of a list of such strings: "['Go', 'SQL']".                       *)
str_list(l) ==
    <<"[">> \o join(<<",", " ">>, [ i \in 1..Len(l) |-> repr_str(l[i]) ]) \o <<"]">>

(* str(item.get(f, ""))                                                    *)
str_field(item, f) ==
    IF f \notin DOMAIN item THEN <<>>
    ELSE IF f \in ListFields THEN str_list(item[f])
    ELSE item[f]

TagWeight == 3

RECURSIVE field_score(_, _, _)
field_score(jd_tokens, item, fields) ==
    IF fields = <<>> THEN 0
    ELSE LET content == lower(str_field(item, Head(fields)))
             content_tokens == Range(normalize(content))
         IN  Cardinality(content_tokens \cap jd_tokens)
                 + field_score(jd_tokens, item, Tail(fields))

(* Mutant of score_item: a matching tag counts 1, like a field token.      *)
score_item_flat_tags(jd_tokens, item, fields, tags_field) ==
    LET raw  == Get(item, tags_field, <<>>)
        tags == [ i \in 1..Len(raw) |-> lower(raw[i]) ]
    IN  Cardinality(Range(tags) \cap jd_tokens)
            + field_score(jd_tokens, item, fields)

score_item(jd_tokens, item, fields, tags_field) ==
    LET raw  == Get(item, tags_field, <<>>)
        tags == [ i \in 1..Len(raw) |-> lower(raw[i]) ]
    IN  TagWeight * Cardinality(Range(tags) \cap jd_tokens)
            + field_score(jd_tokens, item, fields)

----------------------------------------------------------------------------
(* Selector                                                                *)

(* Pass 1 of the skills matching: the skills whose lower-cased whole       *)
(* string is a job-description token, in knowledge-base order.             *)
exact_matches(kb_skills, jd_tokens) ==
    SelectSeq(kb_skills, LAMBDA s : lower(s) \in jd_tokens)

(* Mutant of partial_matches: the partial matches are merged into the      *)
(* exact matches at their knowledge-base position instead of appended.     *)
partial_matches_kb_order(kb_skills, matched_skills, jd_tokens) ==
    SelectSeq(kb_skills,
              LAMBDA s : \/ s \in Range(matched_skills)
                         \/ Range(normalize(s)) \cap jd_tokens # {})

RECURSIVE partial_matches(_, _, _)
(* Pass 2: the loop over kb_skills that appends to matched_skills every    *)
(* skill not yet in it whose tokens meet the job description's.            *)
partial_matches(kb_skills, matched_skills, jd_tokens) ==
    IF kb_skills = <<>> THEN matched_skills
    ELSE LET s == Head(kb_skills)
         IN  partial_matches(
                 Tail(kb_skills),
                 IF s \in Range(matched_skills) THEN matched_skills
                 ELSE IF Range(normalize(s)) \cap jd_tokens # {}
                      THEN Append(matched_skills, s)
                      ELSE matched_skills,
                 jd_tokens)

(* Mutant of match_skills: the list is cut to the cap only where pass 2    *)
(* ran.                                                                    *)
match_skills_cut_in_branch(kb_skills, jd_tokens, limit) ==
    LET pass1 == exact_matches(kb_skills, jd_tokens)
    IN  IF Len(pass1) < limit
        THEN Slice(partial_matches(kb_skills, pass1, jd_tokens), limit)
        ELSE pass1

match_skills(kb_skills, jd_tokens, limit) ==
    LET pass1 == exact_matches(kb_skills, jd_tokens)
        both  == IF Len(pass1) < limit
                 THEN partial_matches(kb_skills, pass1, jd_tokens)
                 ELSE pass1
    IN  Slice(both, limit)

(* Mutant of insert_desc: an element goes before the elements of equal     *)
(* key, which reverses ties.                                               *)
RECURSIVE insert_desc_ties_first(_, _)
insert_desc_ties_first(sorted, x) ==
    IF sorted = <<>> THEN <<x>>
    ELSE IF Head(sorted)[1] > x[1]
         THEN <<Head(sorted)>> \o insert_desc_ties_first(Tail(sorted), x)
         ELSE <<x>> \o sorted

RECURSIVE insert_desc(_, _)
(* list.sort(key=lambda x: x[0], reverse=True) is stable: an element goes  *)
(* behind every element already placed whose key is not smaller.           *)
insert_desc(sorted, x) ==
    IF sorted = <<>> THEN <<x>>
    ELSE IF Head(sorted)[1] >= x[1]
         THEN <<Head(sorted)>> \o insert_desc(Tail(sorted), x)
         ELSE <<x>> \o sorted

RECURSIVE sort_desc(_, _)
sort_desc(todo, sorted) ==
    IF todo = <<>> THEN sorted
    ELSE sort_desc(Tail(todo), insert_desc(sorted, Head(todo)))

(* Mutant of rank_section: the sorted list is not cut to the cap.          *)
rank_section_uncapped(jd_tokens, items, fields, limit) ==
    LET scored   == [ i \in 1..Len(items) |->
                        <<score_item(jd_tokens, items[i], fields, "tags"), items[i]>> ]
        positive == SelectSeq(scored, LAMBDA x : x[1] > 0)
        ranked   == sort_desc(positive, <<>>)
    IN  [ i \in 1..Len(ranked) |-> ranked[i][2] ]

(* Mutant of rank_section: entries of score 0 are kept.                    *)
rank_section_keep_zero(jd_tokens, items, fields, limit) ==
    LET scored   == [ i \in 1..Len(items) |->
                        <<score_item(jd_tokens, items[i], fields, "tags"), items[i]>> ]
        positive == SelectSeq(scored, LAMBDA x : x[1] >= 0)
        ranked   == Slice(sort_desc(positive, <<>>), limit)
    IN  [ i \in 1..Len(ranked) |-> ranked[i][2] ]

rank_section(jd_tokens, items, fields, limit) ==
    LET scored   == [ i \in 1..Len(items) |->
                        <<score_item(jd_tokens, items[i], fields, "tags"), items[i]>> ]
        positive == SelectSeq(scored, LAMBDA x : x[1] > 0)
        ranked   == Slice(sort_desc(positive, <<>>), limit)
    IN  [ i \in 1..Len(ranked) |-> ranked[i][2] ]

ProjectFields == <<"description", "name", "tech">>

ExperienceFields == <<"description", "role", "company">>

CertificateFields == <<"name", "issuer">>

(* Mutant of take_education: the cap is read under the wrong key.          *)
take_education_by_certificates(k, lim) ==
    Slice(Get(k, "education", <<>>), Get(lim, "certificates", 3))

take_education(k, lim) == Slice(Get(k, "education", <<>>), Get(lim, "education", 2))

select_relevant(k, text, lim) ==
    LET jd_tokens == tokenize(text)
    IN  [ skills     |-> match_skills(Get(k, "skills", <<>>), jd_tokens,
                                      Get(lim, "skills", 10)),
          projects   |-> rank_section(jd_tokens, Get(k, "projects", <<>>),
                                      ProjectFields, Get(lim, "projects", 3)),
          experience |-> rank_section(jd_tokens, Get(k, "experience", <<>>),
                                      ExperienceFields, Get(lim, "experience", 3)),
          certs      |-> rank_section(jd_tokens, Get(k, "certificates", <<>>),
                                      CertificateFields, Get(lim, "certificates", 3)),
          education  |-> take_education(k, lim),
          jd_tokens  |-> jd_tokens ]

----------------------------------------------------------------------------
(* Summary Composer                                                        *)

(* a < b for Python strings: lexicographic by code point.                  *)
RECURSIVE str_less(_, _)
str_less(a, b) ==
    IF b = <<>> THEN FALSE
    ELSE IF a = <<>> THEN TRUE
    ELSE IF Head(a) = Head(b) THEN str_less(Tail(a), Tail(b))
    ELSE ord[Head(a)] < ord[Head(b)]

(* sorted(list(S)) for a set of strings.                                   *)
RECURSIVE sorted(_)
sorted(S) ==
    IF S = {} THEN <<>>
    ELSE LET m == CHOOSE x \in S : \A y \in S \ {x} : str_less(x, y)
         IN  <<m>> \o sorted(S \ {m})

(* str(n) for n >= 0.                                                      *)
RECURSIVE str_int(_)
str_int(n) ==
    IF n < 10 THEN <<chr(48 + n)>>
    ELSE str_int(n \div 10) \o <<chr(48 + (n % 10))>>

MaxKeyTerms == 6

S_Engineer == <<"E", "n", "g", "i", "n", "e", "e", "r">>

S_hands_on == <<" ", "w", "i", "t", "h", " ", "h", "a", "n", "d", "s", "-", "o", "n",
                " ", "w", "o", "r", "k", " ", "i", "n", " ">>

S_relevant_tools == <<"r", "e", "l", "e", "v", "a", "n", "t", " ", "t", "o", "o", "l", "s">>

S_projects_in == <<"E", "n", "g", "i", "n", "e", "e", "r", " ", "w", "i", "t", "h", " ",
                   "p", "r", "o", "j", "e", "c", "t", "s", " ", "i", "n", " ">>

S_relevant_areas == <<"r", "e", "l", "e", "v", "a", "n", "t", " ", "a", "r", "e", "a", "s">>

S_Delivered == <<"D", "e", "l", "i", "v", "e", "r", "e", "d", " ">>

S_relevant_projects == <<" ", "r", "e", "l", "e", "v", "a", "n", "t", " ", "p", "r", "o",
                         "j", "e", "c", "t", "(", "s", ")", ".">>

key_terms_of(jd_tokens, skills) ==
    Slice(sorted(jd_tokens \cap { lower(skills[i]) : i \in DOMAIN skills }),
          MaxKeyTerms)

(* Mutant of make_summary: the sentences are joined without a separator.   *)
make_summary_unspaced(jd_tokens, skills, projects, experience, k) ==
    LET key_terms == key_terms_of(jd_tokens, skills)
        terms(default) ==
            IF key_terms # <<>> THEN join(<<",", " ">>, key_terms) ELSE default
        first ==
            IF experience # <<>>
            THEN << Get(experience[1], "role", S_Engineer) \o S_hands_on
                        \o terms(S_relevant_tools) >>
            ELSE IF projects # <<>>
                 THEN << S_projects_in \o terms(S_relevant_areas) >>
                 ELSE <<>>
        second ==
            IF projects # <<>>
            THEN << S_Delivered \o str_int(Len(projects)) \o S_relevant_projects >>
            ELSE <<>>
    IN  join(<<>>, first \o second)

make_summary(jd_tokens, skills, projects, experience, k) ==
    LET key_terms == key_terms_of(jd_tokens, skills)
        terms(default) ==
            IF key_terms # <<>> THEN join(<<",", " ">>, key_terms) ELSE default
        first ==
            IF experience # <<>>
            THEN << Get(experience[1], "role", S_Engineer) \o S_hands_on
                        \o terms(S_relevant_tools) >>
            ELSE IF projects # <<>>
                 THEN << S_projects_in \o terms(S_relevant_areas) >>
                 ELSE <<>>
        second ==
            IF projects # <<>>
            THEN << S_Delivered \o str_int(Len(projects)) \o S_relevant_projects >>
            ELSE <<>>
    IN  join(<<" ">>, first \o second)

----------------------------------------------------------------------------
(* Renderer: the summary and the section headings render_word writes, in   *)
(* the order it writes them.  A section is written only when it has        *)
(* content.  Paragraph bodies and fonts are not modelled.                  *)

render_headings(sum, sel) ==
    (IF sum # <<>> THEN <<"SUMMARY">> ELSE <<>>)
    \o (IF sel.skills # <<>> THEN <<"SKILLS">> ELSE <<>>)
    \o (IF sel.experience # <<>> THEN <<"EXPERIENCE">> ELSE <<>>)
    \o (IF sel.education # <<>> THEN <<"EDUCATION">> ELSE <<>>)
    \o (IF sel.projects # <<>> THEN <<"PROJECTS">> ELSE <<>>)
    \o (IF sel.certs # <<>> THEN <<"CERTIFICATIONS">> ELSE <<>>)

----------------------------------------------------------------------------
(* Inputs: the strings of the knowledge bases and job descriptions.        *)

S_Go == <<"G", "o">>

S_SQL == <<"S", "Q", "L">>

S_Cpp == <<"C", "+", "+">>

S_Node_JS == <<"N", "o", "d", "e", " ", "J", "S">>

S_go == <<"g", "o">>

S_GO == <<"G", "O">>

S_Unity == <<"U", "n", "i", "t", "y">>

S_Rust == <<"R", "u", "s", "t">>

S_Excel == <<"E", "x", "c", "e", "l">>

S_sql == <<"s", "q", "l">>

S_API == <<"A", "P", "I">>

S_Go_API == <<"G", "o", " ", "A", "P", "I">>

S_Shop == <<"S", "h", "o", "p">>

S_Blog == <<"B", "l", "o", "g">>

S_node_blog == <<"n", "o", "d", "e", " ", "b", "l", "o", "g">>

S_Game == <<"G", "a", "m", "e">>

S_Backend_Engineer ==
    << "B", "a", "c", "k", "e", "n", "d", " ", "E", "n", "g", "i", "n", "e",
       "e", "r" >>

S_Acme == <<"A", "c", "m", "e">>

S_Go_and_SQL_services ==
    << "G", "o", " ", "a", "n", "d", " ", "S", "Q", "L", " ", "s", "e", "r",
       "v", "i", "c", "e", "s" >>

S_Node_Inc == <<"N", "o", "d", "e", " ", "I", "n", "c">>

S_API_work == <<"A", "P", "I", " ", "w", "o", "r", "k">>

S_Intern == <<"I", "n", "t", "e", "r", "n">>

S_Initech == <<"I", "n", "i", "t", "e", "c", "h">>

S_SQL_Analyst == <<"S", "Q", "L", " ", "A", "n", "a", "l", "y", "s", "t">>

S_Api_Co == <<"A", "p", "i", " ", "C", "o">>

S_Go_Developer == <<"G", "o", " ", "D", "e", "v", "e", "l", "o", "p", "e", "r">>

S_Google == <<"G", "o", "o", "g", "l", "e">>

S_SQL_Basics == <<"S", "Q", "L", " ", "B", "a", "s", "i", "c", "s">>

S_Node_School == <<"N", "o", "d", "e", " ", "S", "c", "h", "o", "o", "l">>

S_First_Aid == <<"F", "i", "r", "s", "t", " ", "A", "i", "d">>

S_Red_Cross == <<"R", "e", "d", " ", "C", "r", "o", "s", "s">>

S_API_Design == <<"A", "P", "I", " ", "D", "e", "s", "i", "g", "n">>

S_2020 == <<"2", "0", "2", "0">>

S_BSc == <<"B", "S", "c">>

S_MIT == <<"M", "I", "T">>

S_2019 == <<"2", "0", "1", "9">>

S_MSc == <<"M", "S", "c">>

S_ETH == <<"E", "T", "H">>

S_Diploma == <<"D", "i", "p", "l", "o", "m", "a">>

S_Bootcamp == <<"B", "o", "o", "t", "c", "a", "m", "p">>

JD_empty == <<>>

JD_punctuation == <<"?", "!", " ">>

JD_go_sql_node ==
    << "G", "o", ",", " ", "S", "Q", "L", " ", "a", "n", "d", " ", "N", "o",
       "d", "e", " ", "A", "P", "I" >>

JD_cpp_sql == <<"c", "+", "+", " ", "s", "q", "l", " ", "b", "a", "c", "k", "e", "n", "d">>

----------------------------------------------------------------------------
(* Inputs: knowledge-base entries.  An entry holds only the keys its       *)
(* kb.json object has.                                                     *)

SkillPool == <<S_Go, S_SQL, S_Cpp, S_Node_JS>>

ProjectPool == <<
    [name |-> S_API, description |-> S_Go_API, tech |-> <<S_Go, S_SQL>>,
     tags |-> <<S_Go>>],
    [name |-> S_Shop, tags |-> <<S_SQL, S_Unity>>],
    [name |-> S_Blog, description |-> S_node_blog],
    [name |-> S_Game, tech |-> <<S_Unity>>, tags |-> <<S_go, S_GO, S_Rust>>] >>

ExperiencePool == <<
    [role |-> S_Backend_Engineer, company |-> S_Acme,
     description |-> S_Go_and_SQL_services, tags |-> <<S_Go>>],
    [company |-> S_Node_Inc, description |-> S_API_work],
    [role |-> S_Intern, company |-> S_Initech],
    [role |-> S_SQL_Analyst, company |-> S_Api_Co, tags |-> <<S_Excel, S_Excel>>] >>

CertificatePool == <<
    [name |-> S_Go_Developer, issuer |-> S_Google],
    [name |-> S_SQL_Basics, issuer |-> S_Node_School, tags |-> <<S_sql>>],
    [name |-> S_First_Aid, issuer |-> S_Red_Cross],
    [name |-> S_API_Design, year |-> S_2020] >>

EducationPool == <<
    [degree |-> S_BSc, university |-> S_MIT, year |-> S_2019],
    [degree |-> S_MSc, university |-> S_ETH],
    [degree |-> S_Diploma],
    [university |-> S_Bootcamp] >>

JDPool == <<JD_empty, JD_punctuation, JD_go_sql_node, JD_cpp_sql>>

(* Bounds: the longest knowledge-base list and the largest cap drawn.      *)
MaxLen == 3

MaxLimit == 2

(* The defaults of main's argument parser.                                 *)
DefaultSkills == 15

DefaultProjects == 5

DefaultExperience == 4

DefaultCertificates == 7

DefaultEducation == 2

DefaultLimits ==
    [skills |-> DefaultSkills, projects |-> DefaultProjects,
     experience |-> DefaultExperience, certificates |-> DefaultCertificates,
     education |-> DefaultEducation]

(* The sequences of at most n elements of the pool, repetitions included.  *)
Seqs(pool, n) == UNION { [1..k -> Range(pool)] : k \in 0..n }

(* The entries of the pool at the indices ix, in the order of ix.          *)
Pick(pool, ix) == [ i \in 1..Len(ix) |-> pool[ix[i]] ]

FullKB ==
    [skills |-> SkillPool, projects |-> ProjectPool, experience |-> ExperiencePool,
     certificates |-> CertificatePool, education |-> EducationPool]

NoSelection ==
    [skills |-> <<>>, projects |-> <<>>, experience |-> <<>>, certs |-> <<>>,
     education |-> <<>>, jd_tokens |-> {}]

----------------------------------------------------------------------------
(* main: after the knowledge base, the job description and the arguments   *)
(* are read, select_relevant runs and render_word renders its result.      *)

Loaded(k, text, lim) ==
    /\ kb = k
    /\ jd_text = text
    /\ limits = lim
    /\ pc = "loaded"
    /\ selected = NoSelection
    /\ summary = <<>>
    /\ doc = <<>>

(* Every category holds the first n entries of its pool; each of the five  *)
(* caps is drawn on its own.                                               *)
Init ==
    \E n \in 0..MaxLen, text \in Range(JDPool),
       lim \in [DOMAIN DefaultLimits -> 0..MaxLimit] :
        Loaded([ c \in DOMAIN FullKB |-> Slice(FullKB[c], n) ], text, lim)

(* Any skills list; the other categories full, the other caps at their     *)
(* defaults.                                                               *)
InitSkills ==
    \E sk \in Seqs(SkillPool, MaxLen), text \in Range(JDPool), n \in 0..MaxLimit :
        Loaded([FullKB EXCEPT !.skills = sk], text,
               [DefaultLimits EXCEPT !.skills = n])

(* Any choice and order of entries in the ranked categories, under one cap *)
(* for the three of them.                                                  *)
InitRank ==
    \E ix \in Seqs(<<1, 2, 3, 4>>, MaxLen), text \in Range(JDPool), n \in 0..MaxLimit :
        Loaded([FullKB EXCEPT !.projects = Pick(ProjectPool, ix),
                              !.experience = Pick(ExperiencePool, ix),
                              !.certificates = Pick(CertificatePool, ix)],
               text,
               [DefaultLimits EXCEPT !.projects = n, !.experience = n,
                                     !.certificates = n])

(* Any skills list, at most one experience entry, the first n projects.    *)
InitSummary ==
    \E sk \in Seqs(SkillPool, MaxLen), ex \in Seqs(ExperiencePool, 1),
       n \in 0..MaxLen, text \in Range(JDPool) :
        Loaded([FullKB EXCEPT !.skills = sk, !.experience = ex,
                              !.projects = Slice(ProjectPool, n)],
               text, DefaultLimits)

SelectRelevant ==
    /\ pc = "loaded"
    /\ selected' = select_relevant(kb, jd_text, limits)
    /\ pc' = "selected"
    /\ UNCHANGED <<kb, jd_text, limits, summary, doc>>

RenderWord ==
    /\ pc = "selected"
    /\ summary' = make_summary(selected.jd_tokens, selected.skills,
                               selected.projects, selected.experience, kb)
    /\ doc' = render_headings(summary', selected)
    /\ pc' = "rendered"
    /\ UNCHANGED <<kb, jd_text, limits, selected>>

Next == SelectRelevant \/ RenderWord

Spec == Init /\ [][Next]_vars

SpecSkills == InitSkills /\ [][Next]_vars

SpecRank == InitRank /\ [][Next]_vars

SpecSummary == InitSummary /\ [][Next]_vars

----------------------------------------------------------------------------
(* Properties.  Notation shared by the statements below.                   *)

Ran == pc # "loaded"

JdTokens == tokenize(jd_text)

Count(seq, x) == Cardinality({ i \in DOMAIN seq : seq[i] = x })

NoRepeat(seq) == \A i, j \in DOMAIN seq : seq[i] = seq[j] => i = j

(* The ranked categories: the knowledge-base list, the result, the scored  *)
(* fields and the cap of each.                                             *)
Ranked == {"projects", "experience", "certificates"}

ResultOf(c) == IF c = "certificates" THEN selected.certs ELSE selected[c]

FieldsOf(c) ==
    IF c = "projects" THEN ProjectFields
    ELSE IF c = "experience" THEN ExperienceFields
    ELSE CertificateFields

Score(c, item) == score_item(JdTokens, item, FieldsOf(c), "tags")

(* C1: once select_relevant has run, each of the five returned sequences   *)
(* (matched skills, projects, experience, certificates, education) is no   *)
(* longer than its category's cap.                                         *)
QuotaInvariant ==
    Ran => /\ Len(selected.skills) <= limits.skills
           /\ Len(selected.projects) <= limits.projects
           /\ Len(selected.experience) <= limits.experience
           /\ Len(selected.certs) <= limits.certificates
           /\ Len(selected.education) <= limits.education

(* A run in which every category had more candidates than its cap allows   *)
(* and every result is cut to a cap of at least 1.                         *)
QuotaWitness ==
    /\ pc = "selected"
    /\ \A c \in DOMAIN limits : limits[c] >= 1 /\ Len(kb[c]) > limits[c]
    /\ Len(selected.skills) = limits.skills
    /\ Len(selected.education) = limits.education
    /\ \A c \in Ranked :
         /\ Len(ResultOf(c)) = limits[c]
         /\ Cardinality({ i \in DOMAIN kb[c] : Score(c, kb[c][i]) > 0 }) > limits[c]

(* C2: every matched skill is a skill of the knowledge base and every      *)
(* ranked item an entry of its knowledge-base list; no skill occurs twice  *)
(* in the matched skills, also when kb.skills lists it more than once, and *)
(* no knowledge-base entry occurs more often in a ranked result than in    *)
(* its knowledge-base list.                                                *)
NoFabricationNoDuplication ==
    Ran => /\ Range(selected.skills) \subseteq Range(kb.skills)
           /\ NoRepeat(selected.skills)
           /\ \A c \in Ranked :
                /\ Range(ResultOf(c)) \subseteq Range(kb[c])
                /\ \A x \in Range(ResultOf(c)) : Count(ResultOf(c), x) <= Count(kb[c], x)

(* C3: make_summary called with a non-empty experience sequence and n >= 1 *)
(* projects returns "<role> with hands-on work in <terms>. Delivered <n>   *)
(* relevant project(s).": the first sentence ends with a period and one    *)
(* space separates it from the second.                                     *)
SummaryFormatWithExperience ==
    (pc = "rendered" /\ selected.experience # <<>> /\ selected.projects # <<>>) =>
        LET key_terms == key_terms_of(selected.jd_tokens, selected.skills)
        IN  summary =
                Get(selected.experience[1], "role", S_Engineer)
                \o S_hands_on
                \o (IF key_terms # <<>> THEN join(<<",", " ">>, key_terms)
                                        ELSE S_relevant_tools)
                \o <<".", " ">>
                \o S_Delivered \o str_int(Len(selected.projects))
                \o S_relevant_projects

(* Skill matching, stated on the knowledge base: a skill matches exactly   *)
(* when its lower-cased whole string is a job-description token, and only  *)
(* partially when it does not but one of its tokens is.                    *)
Exact(s) == lower(s) \in JdTokens

PartialOnly(s) == ~Exact(s) /\ tokenize(s) \cap JdTokens # {}

Matching == { s \in Range(kb.skills) : Exact(s) \/ PartialOnly(s) }

KbIndex(s) == CHOOSE i \in DOMAIN kb.skills : kb.skills[i] = s

(* C4: for distinct kb.skills, the matched skills are the first N matching *)
(* skills in knowledge-base order: any two skills of the result stand in   *)
(* the order they have in kb.skills.                                       *)
SkillsInKnowledgeBaseOrder ==
    (Ran /\ NoRepeat(kb.skills)) =>
        /\ selected.skills =
               Slice(SelectSeq(kb.skills, LAMBDA s : s \in Matching), limits.skills)
        /\ \A i, j \in DOMAIN selected.skills :
               i < j => KbIndex(selected.skills[i]) < KbIndex(selected.skills[j])

(* s stands before t in the order of the two passes: exact matches first,  *)
(* knowledge-base order within a pass.                                     *)
PassOrder(s, t) ==
    \/ Exact(s) /\ ~Exact(t)
    \/ Exact(s) = Exact(t) /\ KbIndex(s) < KbIndex(t)

(* C4, amended: for distinct kb.skills, the matched skills are the first N *)
(* of the exact matches in knowledge-base order followed by the            *)
(* partial-only matches in knowledge-base order: two skills of the result  *)
(* that matched in the same pass keep their knowledge-base order, and      *)
(* every exact match stands before every partial-only match.               *)
SkillsInPassOrder ==
    (Ran /\ NoRepeat(kb.skills)) =>
        /\ Range(selected.skills) \subseteq Matching
        /\ Len(selected.skills) = Min(limits.skills, Cardinality(Matching))
        /\ \A i, j \in DOMAIN selected.skills :
               i < j => PassOrder(selected.skills[i], selected.skills[j])
        /\ \A s \in Range(selected.skills), t \in Matching :
               PassOrder(t, s) => t \in Range(selected.skills)

(* A result in which an exact match stands before a partial-only match     *)
(* that precedes it in kb.skills.                                          *)
SkillsInPassOrderWitness ==
    /\ pc = "selected"
    /\ NoRepeat(kb.skills)
    /\ \E i, j \in DOMAIN selected.skills :
         /\ i < j
         /\ Exact(selected.skills[i])
         /\ PartialOnly(selected.skills[j])
         /\ KbIndex(selected.skills[j]) < KbIndex(selected.skills[i])

(* The selector's skills matching with pass 2 run unconditionally.         *)
always_pass2(kb_skills, jd_tokens, limit) ==
    Slice(partial_matches(kb_skills, exact_matches(kb_skills, jd_tokens), jd_tokens),
          limit)

(* C10: the matched skills equal those of the variant that always runs     *)
(* pass 2 before truncating; when pass 1 yields at least `limit` skills    *)
(* the result is the first `limit` exact matches.                          *)
Pass2GateIrrelevant ==
    Ran =>
        LET pass1 == exact_matches(kb.skills, JdTokens)
        IN  /\ selected.skills = always_pass2(kb.skills, JdTokens, limits.skills)
            /\ Len(pass1) >= limits.skills =>
                   selected.skills = SubSeq(pass1, 1, limits.skills)

(* The gate is closed (pass 1 alone exceeds a cap of at least 1) although  *)
(* pass 2 would have appended a partial-only match.                        *)
Pass2GateWitness ==
    /\ pc = "selected"
    /\ limits.skills >= 1
    /\ Len(exact_matches(kb.skills, JdTokens)) > limits.skills
    /\ \E s \in Range(kb.skills) : PartialOnly(s)

(* The scores of the entries of category c, by knowledge-base index.       *)
Scores(c) == [ i \in DOMAIN kb[c] |-> Score(c, kb[c][i]) ]

(* Given those scores sc: the indices of the entries with a positive       *)
(* score, and the place of such an entry when they are ordered by score    *)
(* descending, then by knowledge-base index ascending.                     *)
PositiveIn(sc) == { i \in DOMAIN sc : sc[i] > 0 }

PlaceIn(sc, i) ==
    1 + Cardinality({ j \in PositiveIn(sc) : sc[j] > sc[i] \/ (sc[j] = sc[i] /\ j < i) })

Positive(c) == PositiveIn(Scores(c))

Place(c, i) == PlaceIn(Scores(c), i)

(* C5: for each ranked category the result is the first `limit` of the     *)
(* positive-score entries ordered by (score descending, knowledge-base     *)
(* index ascending); scores are non-increasing along the result.           *)
StableTopN ==
    Ran => \A c \in Ranked :
        LET out == ResultOf(c)
            sc  == Scores(c)
            so  == [ k \in DOMAIN out |-> Score(c, out[k]) ]
        IN  /\ Len(out) = Min(limits[c], Cardinality(PositiveIn(sc)))
            /\ \A i \in PositiveIn(sc) :
                   PlaceIn(sc, i) <= Len(out) => out[PlaceIn(sc, i)] = kb[c][i]
            /\ \A k \in 1..(Len(out) - 1) : so[k] >= so[k + 1]

(* The cap cuts between two different entries of equal score: the one that *)
(* comes first in the knowledge base is the last of the result, the other  *)
(* is left out, and an entry of higher score that follows the first in the *)
(* knowledge base stands before it in the result.                          *)
StableTopNWitness ==
    /\ pc = "selected"
    /\ \E c \in Ranked : \E h, i, j \in Positive(c) :
         /\ i < j /\ i < h
         /\ kb[c][i] # kb[c][j]
         /\ Score(c, kb[c][i]) = Score(c, kb[c][j])
         /\ Score(c, kb[c][h]) > Score(c, kb[c][i])
         /\ Place(c, i) = Len(ResultOf(c))
         /\ Place(c, j) = Len(ResultOf(c)) + 1

(* C6: no entry whose score against the job-description tokens is 0 is in  *)
(* a ranked category's result, also when the result is shorter than the    *)
(* category's cap.                                                         *)
ZeroScoreExclusion ==
    Ran => \A c \in Ranked :
               \A k \in DOMAIN ResultOf(c) : Score(c, ResultOf(c)[k]) # 0

(* A non-empty job description, a category with an entry of score 0 and a  *)
(* result shorter than its cap.                                            *)
ZeroScoreWitness ==
    /\ pc = "selected"
    /\ JdTokens # {}
    /\ \E c \in Ranked :
         /\ \E i \in DOMAIN kb[c] : Score(c, kb[c][i]) = 0
         /\ Positive(c) # {}
         /\ Len(ResultOf(c)) < limits[c]

(* The entry without its i-th tag.                                         *)
WithoutTag(item, i) ==
    [item EXCEPT !.tags = SubSeq(item.tags, 1, i - 1)
                              \o SubSeq(item.tags, i + 1, Len(item.tags))]

(* The i-th tag of the entry is its only tag that, lower-cased, is a       *)
(* job-description token.                                                  *)
OnlyMatchingTag(item, i) ==
    /\ "tags" \in DOMAIN item
    /\ i \in DOMAIN item.tags
    /\ \A j \in DOMAIN item.tags : (lower(item.tags[j]) \in JdTokens) <=> (j = i)

(* C7: an entry with exactly one tag among the job-description tokens      *)
(* scores exactly 3 more than the same entry with that tag removed.        *)
TagWeighting ==
    Ran => \A c \in Ranked : \A n \in DOMAIN kb[c] :
        LET item == kb[c][n]
        IN  \A i \in 1..Len(Get(item, "tags", <<>>)) :
                OnlyMatchingTag(item, i) =>
                    Score(c, item) = Score(c, WithoutTag(item, i)) + 3

(* An entry with one matching tag beside a tag that does not match, and    *)
(* with a scored field that matches too.                                   *)
TagWeightingWitness ==
    /\ pc = "selected"
    /\ \E c \in Ranked : \E n \in DOMAIN kb[c] :
         \E i \in 1..Len(Get(kb[c][n], "tags", <<>>)) :
            /\ OnlyMatchingTag(kb[c][n], i)
            /\ Len(kb[c][n].tags) >= 2
    /\ \E c \in Ranked : \E n \in DOMAIN kb[c] :
         \E i \in 1..Len(Get(kb[c][n], "tags", <<>>)) :
            /\ OnlyMatchingTag(kb[c][n], i)
            /\ Score(c, kb[c][n]) > 3

(* C8: when the job description yields no token, the matched skills and    *)
(* the projects, experience and certificates are empty, and education is   *)
(* the first N entries of kb.education (N the education cap).              *)
EmptyJobDescription ==
    (Ran /\ JdTokens = {}) =>
        /\ selected.skills = <<>>
        /\ selected.projects = <<>>
        /\ selected.experience = <<>>
        /\ selected.certs = <<>>
        /\ Len(selected.education) = Min(limits.education, Len(kb.education))
        /\ \A i \in DOMAIN selected.education : selected.education[i] = kb.education[i]

(* A job description of separators only, a knowledge base with entries in  *)
(* every category, and an education list cut by a cap of at least 1 that   *)
(* differs from the other caps.                                            *)
EmptyJobDescriptionWitness ==
    /\ pc = "selected"
    /\ jd_text # <<>>
    /\ JdTokens = {}
    /\ \A c \in DOMAIN kb : kb[c] # <<>>
    /\ limits.education >= 1
    /\ Len(kb.education) > limits.education
    /\ Len(selected.education) = limits.education
    /\ limits.certificates # limits.education

(* x ends with the string e.                                               *)
EndsWith(x, e) == Len(x) >= Len(e) /\ SubSeq(x, Len(x) - Len(e) + 1, Len(x)) = e

StartsWith(x, b) == Len(x) >= Len(b) /\ SubSeq(x, 1, Len(b)) = b

(* C9: the summary is empty when neither experience nor projects exist;    *)
(* otherwise its sentences are joined by one space: with projects, the     *)
(* first sentence, one space and the "Delivered" sentence; with experience *)
(* alone, the first sentence and nothing after it.                         *)
EmptySummary ==
    pc = "rendered" =>
        LET delivered == S_Delivered \o str_int(Len(selected.projects))
                             \o S_relevant_projects
            opening == IF selected.experience # <<>>
                       THEN Get(selected.experience[1], "role", S_Engineer) \o S_hands_on
                       ELSE S_projects_in
            lead == Len(summary) - Len(delivered) - 1
        IN  /\ (selected.experience = <<>> /\ selected.projects = <<>>) => summary = <<>>
            /\ selected.projects # <<>> =>
                   /\ EndsWith(summary, <<" ">> \o delivered)
                   /\ lead > Len(opening)
                   /\ StartsWith(summary, opening)
                   /\ summary[lead] # " "
            /\ (selected.experience # <<>> /\ selected.projects = <<>>) =>
                   /\ StartsWith(summary, opening)
                   /\ Len(summary) > Len(opening)
                   /\ summary[Len(summary)] # " "

(* Skills are matched, yet no experience entry and no project is selected  *)
(* and the summary is empty.                                               *)
EmptySummaryWitness ==
    /\ pc = "rendered"
    /\ selected.skills # <<>>
    /\ selected.experience = <<>>
    /\ selected.projects = <<>>
    /\ summary = <<>>

====
